---- MODULE Spec2Model ----
(***************************************************************************)
(* Model of chatbot-rag/scripts/chat_rag.py: the per-question pipeline     *)
(* responder -> buscar_na_pokeapi / buscar_no_json -> gerar_resposta and   *)
(* the conversational memory MemoriaConversa.                              *)
(*                                                                         *)
(* Text is a sequence of words.  A word is [w, cas, punct]: its letters,   *)
(* its letter case ("low" all lower, "Cap" first upper and rest lower,     *)
(* "UP" all upper, "none" no letters) and whether punctuation is attached. *)
(* A Python value that may be None is a record; None is [none |-> TRUE]    *)
(* and a number n is [int |-> n].                                         *)
(***************************************************************************)
EXTENDS Integers, Sequences, FiniteSets, TLC

\* ------------------------------------------------------------------ bounds
MaxTurnos == 2
MaxAdds == 5

\* ------------------------------------------------------------ Python values
None == [none |-> TRUE]
Num(n) == [int |-> n]
Get(d, k, default) == IF k \in DOMAIN d THEN d[k] ELSE default

W(w, cas, punct) == [w |-> w, cas |-> cas, punct |-> punct]
Cap(w) == W(w, "Cap", FALSE)
Low(w) == W(w, "low", FALSE)
Sym(w) == W(w, "none", FALSE)

\* str.capitalize / str.lower on one word
Capitalize(p) == IF p.cas = "none" THEN p ELSE [p EXCEPT !.cas = "Cap"]
Lower(p) == IF p.cas = "none" THEN p ELSE [p EXCEPT !.cas = "low"]

\* ------------------------------------------------------- module-level data
\* pokedex_gen1.json as loaded at line 12 (Portuguese field names; a record
\* may lack optional fields, which the readers take with dict.get)
cache_local ==
  << [nome |-> Cap("pikachu"),
      tipos |-> <<Cap("electric")>>,
      habilidades |-> <<Cap("static")>>,
      altura |-> Num(4), peso |-> Num(60),
      stats |-> [hp |-> Num(35), ataque |-> Num(55), defesa |-> Num(40),
                 ataque_especial |-> Num(50), defesa_especial |-> Num(50),
                 velocidade |-> Num(90)],
      descricao |-> "pikachu-pt",
      evolucao |-> <<Cap("raichu")>>],
     [nome |-> Cap("charizard"),
      tipos |-> <<Cap("fire"), Cap("flying")>>,
      habilidades |-> <<Cap("blaze")>>,
      stats |-> [hp |-> Num(78), ataque |-> Num(84), defesa |-> Num(78),
                 ataque_especial |-> Num(109)]] >>

NOMES_VALIDOS == [i \in DOMAIN cache_local |-> Lower(cache_local[i].nome)]

CORRECOES_API == [x \in {} |-> x]

\* words that difflib.get_close_matches rates >= 0.6 against a valid name
\* without being equal to it
Parecidos == { <<"pikachuu", "pikachu">> }

\* ------------------------------------------------------ utility functions
limpar_nome(nome) == [nome EXCEPT !.punct = FALSE]

SeqToSet(s) == { s[i] : i \in DOMAIN s }

get_close_matches(palavra, nomes) ==
  SelectSeq(nomes, LAMBDA n : n.w = palavra.w \/ <<palavra.w, n.w>> \in Parecidos)

corrigir_nome_pokemon(nome_digitado) ==
  LET sugestao == get_close_matches(Lower(nome_digitado), NOMES_VALIDOS)
  IN  IF sugestao # <<>> THEN sugestao[1] ELSE Lower(nome_digitado)

normalizar_nome_para_api(nome) ==
  LET nome_limpo == Lower(nome)
  IN  Get(CORRECOES_API, nome_limpo, nome_limpo)

extrair_nomes_de_pokemon(texto) ==
  LET detectada(palavra) == Lower(limpar_nome(palavra)) \in SeqToSet(NOMES_VALIDOS)
      F[i \in 0..Len(texto)] ==
        IF i = 0 THEN <<>>
        ELSE IF detectada(texto[i]) THEN Append(F[i-1], Capitalize(texto[i]))
             ELSE F[i-1]
  IN  F[Len(texto)]

\* the keyword alternatives of each rule, in the order the rules are tried
Regras ==
  << [intencao |-> "ataque",      chaves |-> {"ataque", "poder", "forca", "dano"}],
     [intencao |-> "defesa",      chaves |-> {"defesa", "protecao", "resistencia"}],
     [intencao |-> "tipo",        chaves |-> {"tipo", "tipos", "elemento"}],
     [intencao |-> "habilidade",  chaves |-> {"habilidade", "habilidades", "poderes"}],
     [intencao |-> "evolucao",    chaves |-> {"evolucao", "evolui"}],
     [intencao |-> "fraqueza",    chaves |-> {"fraqueza", "fraquezas", "contra", "fraco"}],
     [intencao |-> "localizacao", chaves |-> {"local", "encontrar", "habitat"}],
     [intencao |-> "comparar",    chaves |-> {"comparar", "vs", "versus"}] >>

detectar_intencao(pergunta) ==
  LET letras == { pergunta[i].w : i \in DOMAIN pergunta }
      casa(i) == Regras[i].chaves \cap letras # {}
      casam == { i \in DOMAIN Regras : casa(i) }
  IN  IF casam = {} THEN "geral"
      ELSE Regras[CHOOSE i \in casam : \A j \in casam : i <= j].intencao

\* ---------------------------------------------------------- type weaknesses
TiposOrdenados ==
  << "bug", "dark", "dragon", "electric", "fairy", "fighting", "fire",
     "flying", "ghost", "grass", "ground", "ice", "poison", "psychic",
     "rock", "steel", "water" >>

tabela_tipos ==
  [ fire     |-> {"water", "rock", "ground"},
    water    |-> {"electric", "grass"},
    electric |-> {"ground"},
    grass    |-> {"fire", "ice", "poison", "flying", "bug"},
    ice      |-> {"fire", "fighting", "rock", "steel"},
    fighting |-> {"flying", "psychic", "fairy"},
    poison   |-> {"ground", "psychic"},
    ground   |-> {"water", "grass", "ice"},
    flying   |-> {"electric", "ice", "rock"},
    psychic  |-> {"bug", "ghost", "dark"},
    bug      |-> {"fire", "flying", "rock"},
    rock     |-> {"water", "grass", "fighting", "ground", "steel"},
    ghost    |-> {"ghost", "dark"},
    dragon   |-> {"ice", "dragon", "fairy"},
    dark     |-> {"fighting", "bug", "fairy"},
    steel    |-> {"fire", "fighting", "ground"},
    fairy    |-> {"poison", "steel"} ]

calcular_fraquezas(tipos) ==
  LET conhecidos == { i \in DOMAIN tipos :
                        tipos[i].cas = "Cap" /\ ~tipos[i].punct
                        /\ tipos[i].w \in DOMAIN tabela_tipos }
      fraquezas == UNION { tabela_tipos[tipos[i].w] : i \in conhecidos }
      ordenadas == SelectSeq(TiposOrdenados, LAMBDA t : t \in fraquezas)
  IN  [i \in DOMAIN ordenadas |-> Cap(ordenadas[i])]

\* ------------------------------------------------------------ remote API
\* what pokeapi.co holds for the slugs it knows: the primary record, the
\* English flavor text and the evolution chain of the species
ApiStats(hp, atk, def, spa, spd, spe) ==
  << [name |-> "hp", base_stat |-> Num(hp)],
     [name |-> "attack", base_stat |-> Num(atk)],
     [name |-> "defense", base_stat |-> Num(def)],
     [name |-> "special-attack", base_stat |-> Num(spa)],
     [name |-> "special-defense", base_stat |-> Num(spd)],
     [name |-> "speed", base_stat |-> Num(spe)] >>

\* an evolution chain: its nodes by number, the root being node 1; a node
\* holds its species name and the numbers of the nodes it evolves to
No(n, filhos) == [species |-> Low(n), evolves_to |-> filhos]

PokeApi ==
  [ pikachu |->
      [stats |-> ApiStats(35, 55, 40, 50, 50, 90),
       types |-> <<Low("electric")>>,
       abilities |-> <<Low("static")>>,
       height |-> 4, weight |-> 60,
       flavor |-> "pikachu-en",
       chain |-> <<No("pichu", <<2>>), No("pikachu", <<3>>), No("raichu", <<>>)>>],
    charizard |->
      [stats |-> ApiStats(78, 84, 78, 109, 85, 100),
       types |-> <<Low("fire"), Low("flying")>>,
       abilities |-> <<Low("blaze")>>,
       height |-> 17, weight |-> 905,
       flavor |-> "charizard-en",
       chain |-> <<No("charmander", <<2>>), No("charmeleon", <<3>>),
                   No("charizard", <<>>)>>],
    mew |->
      [stats |-> ApiStats(100, 100, 100, 100, 100, 100),
       types |-> <<Low("psychic")>>,
       abilities |-> <<Low("synchronize")>>,
       height |-> 4, weight |-> 40,
       flavor |-> "mew-en",
       chain |-> <<No("mew", <<>>)>>] ]

\* One answer of the network to a call of buscar_na_pokeapi:
\*   poke    status of GET pokemon/<slug>, or "timeout" (requests raises)
\*   stats   "full": six stat entries; "partial": the attack entry is missing
\*   species status of GET pokemon-species/<slug>, or "timeout"
\*   flavor  "en": an English entry; "outra": entries but none English;
\*           "ausente": no flavor_text_entries field
\*   ref     whether the species record has an evolution_chain field
\*   chain   "ok": chain JSON; "vazio": empty JSON; "erro": timeout, a body
\*           that is not JSON, or JSON without a chain field
RespostasDaRede(slug) ==
  LET falhas == [poke : {"404", "timeout"}, stats : {"full"}, species : {"404"},
                 flavor : {"en"}, ref : {FALSE}, chain : {"ok"}]
      sem_species == [poke : {"200"}, stats : {"full", "partial"},
                      species : {"404", "timeout"},
                      flavor : {"en"}, ref : {FALSE}, chain : {"ok"}]
      sem_ref == [poke : {"200"}, stats : {"full", "partial"}, species : {"200"},
                  flavor : {"en", "outra", "ausente"}, ref : {FALSE}, chain : {"ok"}]
      com_ref == [poke : {"200"}, stats : {"full", "partial"}, species : {"200"},
                  flavor : {"en", "outra"}, ref : {TRUE},
                  chain : {"ok", "vazio", "erro"}]
  IN  IF slug.w \in DOMAIN PokeApi /\ ~slug.punct
      THEN falhas \cup sem_species \cup sem_ref \cup com_ref
      ELSE falhas

\* the pre-order walk from the root: a node's own name unless it is the
\* queried creature, then each of its branches in turn (a node at height h
\* has branches of height below h)
extrair_evolucoes(chain, nome_corrigido) ==
  LET proprio(n) ==
        LET nome_evo == Capitalize(chain[n].species)
        IN  IF Lower(nome_evo) # nome_corrigido THEN <<nome_evo>> ELSE <<>>
      E[h \in 0..Len(chain)] ==
        [n \in DOMAIN chain |->
           IF h = 0 THEN <<>>
           ELSE LET filhos == chain[n].evolves_to
                    F[i \in 0..Len(filhos)] ==
                      IF i = 0 THEN <<>> ELSE F[i - 1] \o E[h - 1][filhos[i]]
                IN  proprio(n) \o F[Len(filhos)]]
  IN  E[Len(chain)][1]

DescricaoIndisponivel == "descricao-nao-disponivel"
DescricaoNaoEncontrada == "descricao-nao-encontrada"
\* "Não evolui": one list element, in which [A-Z][a-z]+ finds nothing
NaoEvolui == Sym("Nao evolui")

Raise(e) == [raise |-> e]
Raised(v) == "raise" \in DOMAIN v

\* lines 126-174, for the corrected name and what the API holds under the
\* slug: a record, None, or the exception raised
PokeapiCorpo(nome_corrigido, poke_data, r) ==
  LET lista == IF r.stats = "full" THEN poke_data.stats
               ELSE SelectSeq(poke_data.stats, LAMBDA s : s.name # "attack")
      stats == [k \in { lista[i].name : i \in DOMAIN lista } |->
                  (CHOOSE s \in SeqToSet(lista) : s.name = k).base_stat]
      descricao == IF r.flavor = "en" THEN poke_data.flavor
                   ELSE DescricaoNaoEncontrada
      evolucoes == extrair_evolucoes(poke_data.chain, nome_corrigido)
      evolucao == IF r.ref /\ r.chain = "ok" /\ evolucoes # <<>>
                  THEN evolucoes ELSE <<NaoEvolui>>
  IN  IF r.poke = "timeout" THEN Raise("Timeout")
      ELSE IF r.poke # "200" THEN None
      ELSE IF r.species = "timeout" THEN Raise("Timeout")
      ELSE IF r.species # "200" THEN Raise("UnboundLocalError")
      ELSE IF r.flavor = "ausente" THEN Raise("KeyError")
      ELSE IF r.ref /\ r.chain = "erro" THEN Raise("ChainError")
      ELSE [nome |-> Capitalize(nome_corrigido),
            tipos |-> [i \in DOMAIN poke_data.types |-> Capitalize(poke_data.types[i])],
            habilidades |-> [i \in DOMAIN poke_data.abilities |->
                               Capitalize(poke_data.abilities[i])],
            altura |-> [decimos |-> poke_data.height],
            peso |-> [decimos |-> poke_data.weight],
            stats |-> stats,
            descricao |-> descricao,
            evolucao |-> evolucao,
            fonte |-> "PokeAPI"]

\* lines 119-121 and the GET of pokemon/<slug>
DadosDaApi(nome_api) ==
  IF nome_api.w \in DOMAIN PokeApi THEN PokeApi[nome_api.w] ELSE None

\* the body of the try block: a record, None, or the exception it raises
PokeapiNome(nome_corrigido, r) ==
  PokeapiCorpo(nome_corrigido, DadosDaApi(normalizar_nome_para_api(nome_corrigido)), r)
PokeapiTry(nome, r) ==
  PokeapiNome(corrigir_nome_pokemon(limpar_nome(nome)), r)

buscar_na_pokeapi(nome, r) ==
  LET v == PokeapiTry(nome, r)
  IN  IF Raised(v) THEN None ELSE v

NA == [na |-> TRUE]

\* canonical stat key -> the cache's field name (lines 190-195)
ChavesDoCache_trocadas ==
  ("hp" :> "hp") @@ ("attack" :> "defesa") @@ ("defense" :> "ataque")
  @@ ("special-attack" :> "ataque_especial")
  @@ ("special-defense" :> "defesa_especial") @@ ("speed" :> "velocidade")
ChavesDoCache ==
  ("hp" :> "hp") @@ ("attack" :> "ataque") @@ ("defense" :> "defesa")
  @@ ("special-attack" :> "ataque_especial")
  @@ ("special-defense" :> "defesa_especial") @@ ("speed" :> "velocidade")

buscar_no_json(nome) ==
  LET nome_corrigido == corrigir_nome_pokemon(limpar_nome(nome))
      achados == { i \in DOMAIN cache_local :
                     Lower(Get(cache_local[i], "nome", Sym(""))) = nome_corrigido }
  IN  IF achados = {} THEN None
      ELSE LET poke == cache_local[CHOOSE i \in achados : \A j \in achados : i <= j]
           IN  [nome |-> poke.nome,
                tipos |-> Get(poke, "tipos", <<>>),
                habilidades |-> Get(poke, "habilidades", <<>>),
                altura |-> Get(poke, "altura", NA),
                peso |-> Get(poke, "peso", NA),
                stats |-> [k \in DOMAIN ChavesDoCache |->
                             Get(poke.stats, ChavesDoCache[k], None)],
                descricao |-> Get(poke, "descricao", DescricaoIndisponivel),
                evolucao |-> Get(poke, "evolucao", <<NaoEvolui>>),
                fonte |-> "Cache Local"]

\* ------------------------------------------------------ MemoriaConversa
maxlen == 3

adicionar_sem_despejo(hist, p, r) ==
  LET e == [pergunta |-> p, resposta |-> r]
  IN  IF Len(hist) = maxlen THEN hist ELSE Append(hist, e)
adicionar(hist, p, r) ==
  LET e == [pergunta |-> p, resposta |-> r]
  IN  IF Len(hist) = maxlen THEN Append(Tail(hist), e) ELSE Append(hist, e)

\* ------------------------------------------------------------ reply text
ValorTxt(v) == IF v = None THEN Cap("none") ELSE Sym("#")
ComPunct(p) == [p EXCEPT !.punct = TRUE]

locais ==
  [ pikachu   |-> <<Cap("floresta"), Low("de"), Cap("viridian")>>,
    charizard |-> <<Cap("montanha"), Low("da"), Cap("liga"), Cap("pok"), Low("mon")>>,
    blastoise |-> <<Cap("lagos"), Low("do"), Cap("vale"), Cap("celeste")>> ]
LocalDesconhecido ==
  <<Cap("localiza"), Low("desconhecida"), Low("na"), Low("primeira"), Low("gera")>>

Dica == [kind |-> "dica"]

\* the words of a reply, as str() renders it; [A-Z][a-z]+ matches inside a
\* word up to its first non-ASCII letter, so those words are cut there
Texto(a) ==
  CASE a.kind = "ataque" ->
         <<Sym("*"), a.nome, Low("tem"), ValorTxt(a.valor), Low("de"),
           Low("ataque"), ComPunct(Low("base"))>>
    [] a.kind = "defesa" ->
         <<Sym("*"), a.nome, Low("tem"), ValorTxt(a.valor), Low("de"),
           Low("defesa"), ComPunct(Low("base"))>>
    [] a.kind = "tipo" ->
         <<Sym("*"), a.nome, Low("e"), Low("do"), ComPunct(Low("tipo"))>> \o a.lista
    [] a.kind = "habilidade" ->
         <<Sym("*"), Cap("habilidades"), Low("de"), ComPunct(a.nome)>> \o a.lista
    [] a.kind = "evolucao" ->
         <<Sym("*"), a.nome, Low("evolui"), ComPunct(Low("para"))>> \o a.lista
    [] a.kind = "fraqueza" ->
         <<Sym("*"), a.nome, Low("e"), Low("fraco"), ComPunct(Low("contra"))>>
         \o (IF a.lista # <<>> THEN a.lista
             ELSE <<Cap("nenhum"), Low("tipo"), Low("em"), Low("especial")>>)
    [] a.kind = "localizacao" ->
         <<Sym("*"), a.nome, Low("pode"), Low("ser"), Low("encontrado"),
           ComPunct(Low("em"))>> \o a.local
    [] a.kind = "comparacao" ->
         <<Sym("*"), Cap("compara"), Low("entre"), a.poke1, Low("e"), ComPunct(a.poke2),
           Sym("*"), ComPunct(Cap("ataque")), ValorTxt(a.v1[1]), Low("vs"), ValorTxt(a.v2[1]),
           Sym("*"), ComPunct(Cap("defesa")), ValorTxt(a.v1[2]), Low("vs"), ValorTxt(a.v2[2]),
           Sym("*"), ComPunct(W("hp", "UP", FALSE)), ValorTxt(a.v1[3]), Low("vs"), ValorTxt(a.v2[3]),
           Sym("*"), ComPunct(Cap("velocidade")), ValorTxt(a.v1[4]), Low("vs"), ValorTxt(a.v2[4]),
           Sym("*"), ComPunct(Cap("an"))>> \o a.analise
    [] a.kind = "dica" ->
         <<Cap("por"), ComPunct(Low("favor")), Low("pergunte"), Low("algo"), Low("como"),
           ComPunct(Cap("quem")), Low("e"), Low("mais"), ComPunct(Low("forte")),
           Cap("charizard"), Low("ou"), ComPunct(Cap("blastoise"))>>
    [] a.kind = "geral" ->
         <<Sym("*"), a.nome>>
         \o (IF a.fonte = "PokeAPI" THEN <<ComPunct(Cap("pok"))>>
             ELSE <<ComPunct(Cap("cache")), ComPunct(Cap("local"))>>)
         \o <<Sym("*"), ComPunct(Cap("tipos"))>> \o a.tipos
         \o <<Sym("*"), ComPunct(Cap("habilidades"))>> \o a.habilidades
         \o <<Sym("*"), ComPunct(Cap("descri")), Sym(a.descricao)>>
         \o <<Sym("*"), ComPunct(Cap("altura")), Sym("#"), Cap("peso"), Sym("#")>>
         \o <<Sym("*"), ComPunct(Cap("stats")), ComPunct(W("hp", "UP", FALSE)), ValorTxt(a.hp),
              ComPunct(Cap("ataque")), ValorTxt(a.attack),
              ComPunct(Cap("defesa")), ValorTxt(a.defense),
              ComPunct(Cap("velocidade")), ValorTxt(a.speed)>>
         \o <<Sym("*"), ComPunct(Cap("evolu"))>> \o a.evolucao

\* "Q: {q}\nA: {a}" of each entry, joined
contexto(hist) ==
  LET linha(e) == <<ComPunct(W("q", "UP", FALSE))>> \o e.pergunta
                  \o <<ComPunct(W("a", "UP", FALSE))>> \o Texto(e.resposta)
      C[i \in 0..Len(hist)] == IF i = 0 THEN <<>> ELSE C[i - 1] \o linha(hist[i])
  IN  C[Len(hist)]

\* re.findall(r'[A-Z][a-z]+', texto): an upper-case letter followed by at
\* least one lower-case letter, without the punctuation around it
findall(texto) ==
  LET casa(p) == p.cas = "Cap"
      achadas == SelectSeq(texto, casa)
  IN  [i \in DOMAIN achadas |-> Cap(achadas[i].w)]

\* ---------------------------------------------------------- gerar_resposta
\* Python's  a or b  on values that are a record or None
Ou(a, b) == IF a # None THEN a ELSE b

StatsComparadas == <<"attack", "defense", "hp", "speed">>

LinhaDaComparacao(poke1, poke2, stat, val1, val2) ==
  IF val1.int > val2.int
  THEN <<poke1, Low("tem"), Low("mais"), Low(stat), Sym("#"), Low("vs"), Sym("#")>>
  ELSE IF val2.int > val1.int
  THEN <<poke2, Low("tem"), Low("mais"), Low(stat), Sym("#"), Low("vs"), Sym("#")>>
  ELSE <<Cap("empate"), Low("em"), Low(stat), Sym("#")>>

\* lines 246-265: the comparison of two resolved records
CompararDados(poke1, poke2, dados1, dados2) ==
  LET val1(i) == Get(dados1.stats, StatsComparadas[i], Num(0))
      val2(i) == Get(dados2.stats, StatsComparadas[i], Num(0))
      linha(i) == LinhaDaComparacao(poke1, poke2, StatsComparadas[i], val1(i), val2(i))
  IN  IF \E i \in 1..4 : val1(i) = None \/ val2(i) = None
      THEN Raise("TypeError")
      ELSE IF \E i \in 1..4 : StatsComparadas[i] \notin DOMAIN dados1.stats
                              \/ StatsComparadas[i] \notin DOMAIN dados2.stats
      THEN Raise("KeyError")
      ELSE [kind |-> "comparacao", poke1 |-> poke1, poke2 |-> poke2,
            v1 |-> [i \in 1..4 |-> val1(i)],
            v2 |-> [i \in 1..4 |-> val2(i)],
            analise |-> linha(1) \o linha(2) \o linha(3)]

\* lines 241-267, given the words found in the memory text and the network's
\* answers to the two remote look-ups
CompararNomes(pokemons, r1, r2) ==
  IF Len(pokemons) >= 2
  THEN LET dados1 == Ou(buscar_na_pokeapi(pokemons[1], r1), buscar_no_json(pokemons[1]))
           dados2 == Ou(buscar_na_pokeapi(pokemons[2], r2), buscar_no_json(pokemons[2]))
       IN  IF dados1 # None /\ dados2 # None
           THEN CompararDados(pokemons[1], pokemons[2], dados1, dados2)
           ELSE Dica
  ELSE Dica

\* the Compare branch, lines 237-267
Comparar(hist, r1, r2) == CompararNomes(findall(contexto(hist)), r1, r2)

gerar_resposta(intencao, dados, hist, r1, r2) ==
  LET nome == dados.nome
      tem(k) == k \in DOMAIN dados.stats
      fraquezas == calcular_fraquezas(dados.tipos)
  IN  CASE intencao = "ataque" ->
             IF tem("attack")
             THEN [kind |-> "ataque", nome |-> nome, valor |-> dados.stats["attack"]]
             ELSE Raise("KeyError")
        [] intencao = "defesa" ->
             IF tem("defense")
             THEN [kind |-> "defesa", nome |-> nome, valor |-> dados.stats["defense"]]
             ELSE Raise("KeyError")
        [] intencao = "tipo" ->
             [kind |-> "tipo", nome |-> nome, lista |-> dados.tipos]
        [] intencao = "habilidade" ->
             [kind |-> "habilidade", nome |-> nome, lista |-> dados.habilidades]
        [] intencao = "evolucao" ->
             [kind |-> "evolucao", nome |-> nome, lista |-> dados.evolucao]
        [] intencao = "fraqueza" ->
             [kind |-> "fraqueza", nome |-> nome, lista |-> fraquezas]
        [] intencao = "localizacao" ->
             [kind |-> "localizacao", nome |-> nome,
              local |-> IF nome.cas = "Cap" /\ ~nome.punct /\ nome.w \in DOMAIN locais
                        THEN locais[nome.w] ELSE LocalDesconhecido]
        [] intencao = "comparar" -> Comparar(hist, r1, r2)
        [] OTHER ->
             IF tem("hp") /\ tem("attack") /\ tem("defense") /\ tem("speed")
             THEN [kind |-> "geral", nome |-> nome, fonte |-> dados.fonte,
                   tipos |-> dados.tipos, habilidades |-> dados.habilidades,
                   descricao |-> dados.descricao,
                   altura |-> dados.altura, peso |-> dados.peso,
                   hp |-> dados.stats["hp"], attack |-> dados.stats["attack"],
                   defense |-> dados.stats["defense"], speed |-> dados.stats["speed"],
                   evolucao |-> dados.evolucao]
             ELSE Raise("KeyError")

\* ------------------------------------------------------------------ state
VARIABLES
  historico,         \* memoria.historico: sequence of [pergunta, resposta]
  ultimo_pokemon,    \* memoria.ultimo_pokemon: None or a name
  pc,                \* where responder is: "idle", "input", "busca", "gerar"
  pergunta,          \* the question of the current (or last) turn
  intencao,          \* local of responder
  nomes_detectados,  \* local of responder
  idx,               \* position of the for loop over nomes_detectados
  dados,             \* local of responder
  resposta,          \* what the last call of responder returned or raised
  turnos,            \* number of calls of responder so far
  extraidos,         \* what extrair_nomes_de_pokemon returned in this turn
  opcoes,            \* the two names shown by input() in this turn
  buscas,            \* the look-ups made in this turn: [quem, nome]
  m_log,             \* every entry passed to MemoriaConversa.adicionar
  r_nome, r_rede, r_dados, r_fase   \* one resolution: name, network, result

vars == <<historico, ultimo_pokemon, pc, pergunta, intencao, nomes_detectados,
          idx, dados, resposta, turnos, extraidos, opcoes, buscas, m_log,
          r_nome, r_rede, r_dados, r_fase>>

sessao == <<historico, ultimo_pokemon, pc, pergunta, intencao, nomes_detectados,
            idx, dados, resposta, turnos, extraidos, opcoes, buscas>>
resolucao == <<r_nome, r_rede, r_dados, r_fase>>

\* the questions asked in the model
Perguntas ==
  { <<Cap("qual"), Low("ataque"), ComPunct(Cap("pikachu"))>>,
    <<Cap("pikachu")>>,
    <<Low("pikachu"), Low("versus"), ComPunct(Low("charizard"))>>,
    <<Low("comparar")>>,
    <<Low("defesa")>>,
    <<Low("tipo"), W("charizard", "UP", FALSE), Low("charizard")>>,
    <<Low("evolui"), Cap("charizard")>>,
    <<Low("habilidades")>>,
    <<Low("fraqueza")>>,
    <<Low("habitat")>> }

Slug(nome) == normalizar_nome_para_api(corrigir_nome_pokemon(limpar_nome(nome)))
SemRede == [poke |-> "404", stats |-> "full", species |-> "404",
            flavor |-> "en", ref |-> FALSE, chain |-> "ok"]

NaoIdentifiquei == [kind |-> "nao_identifiquei"]
NaoEncontrei(nomes) == [kind |-> "nao_encontrei", nomes |-> nomes]
Kind(r) == IF "kind" \in DOMAIN r THEN r.kind ELSE ""

InitSessao ==
  /\ historico = <<>>
  /\ ultimo_pokemon = None
  /\ pc = "idle"
  /\ pergunta = <<>>
  /\ intencao = "geral"
  /\ nomes_detectados = <<>>
  /\ idx = 1
  /\ dados = None
  /\ resposta = None
  /\ turnos = 0
  /\ extraidos = <<>>
  /\ opcoes = <<>>
  /\ buscas = <<>>

InitResolucao ==
  /\ r_nome = Sym("")
  /\ r_rede = SemRede
  /\ r_dados = None
  /\ r_fase = "feito"

Init == InitSessao /\ m_log = <<>> /\ InitResolucao

\* truthiness of memoria.ultimo_pokemon: neither None nor the empty string
Definido_nunca(ultimo) == FALSE
Definido(ultimo) == ultimo # None /\ ultimo.w # ""

\* lines 293-294: the candidates, after the fall-back on the last creature
Candidatos_sem_memoria(ext, ultimo) == ext
Candidatos(ext, ultimo) ==
  IF ext = <<>> /\ Definido(ultimo) THEN <<ultimo>> ELSE ext

\* line 299: the candidates after the prompt was answered
Escolher_todos(nomes, confirmacao) == nomes
Escolher(nomes, confirmacao) ==
  << IF confirmacao = "1" THEN nomes[1] ELSE nomes[2] >>

\* lines 310-311: memoria.ultimo_pokemon after one look-up
UltimoApos(d, ultimo) == IF d # None THEN d.nome ELSE ultimo

\* responder, lines 285-302: up to the prompt, the early return, or the loop
Responder(q) ==
  LET ext == extrair_nomes_de_pokemon(q)
      nomes == Candidatos(ext, ultimo_pokemon)
  IN  /\ pc = "idle"
      /\ turnos < MaxTurnos
      /\ turnos' = turnos + 1
      /\ pergunta' = q
      /\ intencao' = detectar_intencao(q)
      /\ extraidos' = ext
      /\ nomes_detectados' = nomes
      /\ idx' = 1
      /\ dados' = None
      /\ buscas' = <<>>
      /\ opcoes' = IF Len(nomes) > 1 THEN <<nomes[1], nomes[2]>> ELSE <<>>
      /\ IF Len(nomes) > 1 THEN pc' = "input" /\ resposta' = None
         ELSE IF nomes = <<>> THEN pc' = "idle" /\ resposta' = NaoIdentifiquei
         ELSE pc' = "busca" /\ resposta' = None
      /\ UNCHANGED <<historico, ultimo_pokemon, m_log, resolucao>>

\* lines 297-299: the answer typed at the prompt
Input(confirmacao) ==
  /\ pc = "input"
  /\ nomes_detectados' = Escolher(nomes_detectados, confirmacao)
  /\ pc' = "busca"
  /\ UNCHANGED <<historico, ultimo_pokemon, pergunta, intencao, idx, dados,
                 resposta, turnos, extraidos, opcoes, buscas, m_log, resolucao>>

\* lines 307-309 for one name, given the network's answer
Resolver(nome, r) == Ou(buscar_na_pokeapi(nome, r), buscar_no_json(nome))

\* one answer of the network for each distinct outcome of resolving nome
Representantes(nome, todas) ==
  { CHOOSE r \in todas : Resolver(nome, r) = d : d \in { Resolver(nome, r) : r \in todas } }
Redes(nome) == Representantes(nome, RespostasDaRede(Slug(nome)))

\* lines 306-315 for one candidate and one outcome d of its look-up
BuscarNome(nome, d) ==
  /\ buscas' = Append(buscas, [quem |-> "responder", nome |-> nome])
  /\ ultimo_pokemon' = UltimoApos(d, ultimo_pokemon)
  /\ IF d # None
     THEN /\ dados' = d
          /\ pc' = "gerar"
          /\ UNCHANGED <<idx, resposta>>
     ELSE IF idx < Len(nomes_detectados)
     THEN /\ idx' = idx + 1
          /\ UNCHANGED <<dados, pc, resposta>>
     ELSE /\ resposta' = NaoEncontrei(nomes_detectados)
          /\ pc' = "idle"
          /\ UNCHANGED <<dados, idx>>

\* lines 306-315: one iteration of the loop, and the return after the loop
Buscar ==
  /\ pc = "busca"
  /\ \E r \in Redes(nomes_detectados[idx]) :
       BuscarNome(nomes_detectados[idx], Resolver(nomes_detectados[idx], r))
  /\ UNCHANGED <<historico, pergunta, intencao, nomes_detectados, turnos,
                 extraidos, opcoes, m_log, resolucao>>

\* lines 319-321, for what gerar_resposta returned or raised
Registrar(v) ==
  /\ resposta' = v
  /\ historico' = IF Raised(v) THEN historico ELSE adicionar(historico, pergunta, v)

\* line 318 in a Compare turn with two words in the memory text: the two
\* look-ups of lines 243-244 and then lines 319-321
GerarComparando(pokemons) ==
  /\ \E r1 \in Redes(pokemons[1]), r2 \in Redes(pokemons[2]) :
       Registrar(CompararNomes(pokemons, r1, r2))
  /\ buscas' = buscas \o <<[quem |-> "gerar_resposta", nome |-> pokemons[1]],
                           [quem |-> "gerar_resposta", nome |-> pokemons[2]]>>

GerarCom(pokemons) ==
  IF intencao = "comparar" /\ Len(pokemons) >= 2
  THEN GerarComparando(pokemons)
  ELSE /\ Registrar(gerar_resposta(intencao, dados, historico, SemRede, SemRede))
       /\ UNCHANGED buscas

\* lines 318-321: gerar_resposta, memoria.adicionar, return
Gerar ==
  /\ pc = "gerar"
  /\ GerarCom(findall(contexto(historico)))
  /\ pc' = "idle"
  /\ dados' = None
  /\ UNCHANGED <<ultimo_pokemon, pergunta, intencao, nomes_detectados, idx,
                 turnos, extraidos, opcoes, m_log, resolucao>>

Next ==
  \/ \E q \in Perguntas : Responder(q)
  \/ \E c \in {"1", "2", ""} : Input(c)
  \/ Buscar
  \/ Gerar

Spec == Init /\ [][Next]_vars

\* --------------------------------------- MemoriaConversa.adicionar on its own
PerguntasMem == { <<Cap("pikachu")>>, <<Low("defesa")>> }
RespostasMem == { [kind |-> "ataque", nome |-> Cap("pikachu"), valor |-> Num(55)], Dica }

Adicionar(p, r) ==
  /\ Len(m_log) < MaxAdds
  /\ historico' = adicionar(historico, p, r)
  /\ m_log' = Append(m_log, [pergunta |-> p, resposta |-> r])
  /\ UNCHANGED <<ultimo_pokemon, pc, pergunta, intencao, nomes_detectados, idx,
                 dados, resposta, turnos, extraidos, opcoes, buscas, resolucao>>

NextMem == \E p \in PerguntasMem, r \in RespostasMem : Adicionar(p, r)

SpecMem == Init /\ [][NextMem]_vars

\* ------------------------------- one resolution: remote first, then the cache
NomesDeEntrada ==
  { Cap("pikachu"), ComPunct(Low("pikachu")), Cap("pikachuu"),
    W("charizard", "UP", FALSE), Cap("mew"), ComPunct(Cap("mew")),
    Cap("qual"), Low("raichu") }

InitResolver ==
  /\ InitSessao
  /\ m_log = <<>>
  /\ r_nome \in NomesDeEntrada
  /\ r_rede \in RespostasDaRede(Slug(r_nome))
  /\ r_dados = None
  /\ r_fase = "pokeapi"

\* line 307
BuscarNaPokeapi ==
  /\ r_fase = "pokeapi"
  /\ r_dados' = buscar_na_pokeapi(r_nome, r_rede)
  /\ r_fase' = IF r_dados' = None THEN "json" ELSE "feito"
  /\ UNCHANGED <<sessao, m_log, r_nome, r_rede>>

\* lines 308-309
BuscarNoJson ==
  /\ r_fase = "json"
  /\ r_dados' = buscar_no_json(r_nome)
  /\ r_fase' = "feito"
  /\ UNCHANGED <<sessao, m_log, r_nome, r_rede>>

NextResolver == BuscarNaPokeapi \/ BuscarNoJson

SpecResolver == InitResolver /\ [][NextResolver]_vars

\* ================================================================ properties
StatsCanonicas ==
  {"hp", "attack", "defense", "special-attack", "special-defense", "speed"}

Min(a, b) == IF a < b THEN a ELSE b

\* C1: whenever the primary fetch returns 200, the resolution ends with a
\* record whose source is the remote API, whatever happened to the species
\* and evolution-chain fetches; a failed or absent description gives the
\* "not available" sentinel and a failed or absent chain the single "does
\* not evolve" sentinel.
C1_RemotoNuncaAbandonado ==
  (r_fase # "pokeapi" /\ r_rede.poke = "200") =>
     /\ r_fase = "feito"
     /\ r_dados # None
     /\ r_dados.fonte = "PokeAPI"
     /\ (r_rede.species # "200" \/ r_rede.flavor # "en")
          => r_dados.descricao = DescricaoIndisponivel
     /\ (r_rede.species # "200" \/ ~r_rede.ref \/ r_rede.chain # "ok")
          => r_dados.evolucao = <<NaoEvolui>>

\* C2: every call of responder ends by returning a text reply; none ends
\* in an uncaught exception.
C2_SempreResponde ==
  (pc = "idle" /\ turnos > 0) => (~Raised(resposta) /\ Kind(resposta) # "")

\* C3: a turn that ends with a failure reply leaves the memory alone.  No
\* step of a turn other than a successful look-up and the synthesis after it
\* changes historico or ultimo_pokemon; the turn ends with "nao identifiquei"
\* exactly when nothing was extracted and ultimo_pokemon is unset, and with
\* "nao encontrei <names>" exactly when every candidate was looked up in both
\* sources without success.
C3_Passos ==
  (pc # "gerar" /\ pc' # "gerar") => UNCHANGED <<historico, ultimo_pokemon>>
C3_Respostas ==
  /\ (pc = "idle" /\ turnos > 0) =>
       ((extraidos = <<>> /\ ~Definido(ultimo_pokemon)) <=> resposta = NaoIdentifiquei)
  /\ (pc = "idle" /\ turnos > 0 /\ nomes_detectados # <<>>
        /\ Len(buscas) >= Len(nomes_detectados)
        /\ \A i \in DOMAIN nomes_detectados :
             /\ buscas[i] = [quem |-> "responder", nome |-> nomes_detectados[i]]
             /\ \A r \in RespostasDaRede(Slug(nomes_detectados[i])) :
                  buscar_na_pokeapi(nomes_detectados[i], r) = None
             /\ buscar_no_json(nomes_detectados[i]) = None)
       => resposta = NaoEncontrei(nomes_detectados)
  /\ Kind(resposta) = "nao_encontrei" =>
       /\ pc = "idle"
       /\ resposta.nomes = nomes_detectados
       /\ dados = None
C3_FalhaNaoAlteraMemoria == [](C3_Respostas) /\ [][C3_Passos]_vars
C3_Witness ==
  /\ pc = "idle"
  /\ turnos = 2
  /\ resposta = NaoIdentifiquei
  /\ historico = <<>>
  /\ ultimo_pokemon = None

\* C4: a turn in which a candidate resolves ends with ultimo_pokemon equal to
\* the name of the resolved record, with exactly one entry appended to the
\* memory, that entry being (the question, the reply returned); the
\* candidates were looked up in order and none after the first success.
C4_Passo ==
  pc = "gerar" =>
    /\ pc' = "idle"
    /\ ~Raised(resposta')
    /\ ultimo_pokemon' = dados.nome
    /\ historico' = IF Len(historico) < maxlen
                    THEN historico \o <<[pergunta |-> pergunta, resposta |-> resposta']>>
                    ELSE SubSeq(historico, 2, maxlen)
                         \o <<[pergunta |-> pergunta, resposta |-> resposta']>>
    /\ idx <= Len(nomes_detectados)
    /\ Len(buscas) = idx
    /\ \A i \in 1..idx : buscas[i] = [quem |-> "responder", nome |-> nomes_detectados[i]]
C4_TurnoComSucesso == [][C4_Passo]_vars

\* C5: when the remote attempt is a miss (non-200, timeout), resolution
\* returns the cache record, tagged "Cache Local", with the Portuguese stat
\* fields under the six canonical keys, if the corrected name equals a cache
\* name ignoring case, and None if it equals none.
C5_Esperado(poke) ==
  /\ r_dados # None
  /\ r_dados.fonte = "Cache Local"
  /\ r_dados.nome = poke.nome
  /\ DOMAIN r_dados.stats = StatsCanonicas
  /\ r_dados.stats["hp"] = Get(poke.stats, "hp", None)
  /\ r_dados.stats["attack"] = Get(poke.stats, "ataque", None)
  /\ r_dados.stats["defense"] = Get(poke.stats, "defesa", None)
  /\ r_dados.stats["special-attack"] = Get(poke.stats, "ataque_especial", None)
  /\ r_dados.stats["special-defense"] = Get(poke.stats, "defesa_especial", None)
  /\ r_dados.stats["speed"] = Get(poke.stats, "velocidade", None)
C5_FalhaRemotaCaiNoCache ==
  (r_fase = "feito" /\ r_rede.poke # "200") =>
    LET corrigido == corrigir_nome_pokemon(limpar_nome(r_nome))
        iguais == { i \in DOMAIN cache_local :
                      cache_local[i].nome.w = corrigido.w
                      /\ cache_local[i].nome.punct = corrigido.punct }
    IN  IF iguais # {} THEN \E i \in iguais : C5_Esperado(cache_local[i])
        ELSE r_dados = None
C5_Witness ==
  /\ r_fase = "feito"
  /\ r_rede.poke = "timeout"
  /\ r_nome = W("charizard", "UP", FALSE)
  /\ r_dados # None
  /\ r_dados.stats["attack"] = Num(84)
  /\ r_dados.stats["speed"] = None

\* C6: after N calls of adicionar the memory holds exactly the last
\* min(N, 3) entries, oldest first; it never holds more than 3.
C6_Fifo ==
  LET n == Len(m_log)
      k == Min(n, 3)
  IN  /\ Len(historico) = k
      /\ Len(historico) <= 3
      /\ \A i \in 1..k : historico[i] = m_log[n - k + i]
C6_Witness ==
  /\ Len(m_log) = 5
  /\ Len(historico) = 3
  /\ m_log[1] # m_log[3]
  /\ historico[1] = m_log[3]

\* C7: in a Compare turn the two creatures compared are the first two
\* distinct capitalized words of the memory text; with fewer than two
\* distinct words there the reply is the usage hint; a name is never
\* compared with itself.
PrimeirosDistintos(m) ==
  LET outros == SelectSeq(m, LAMBDA x : x # m[1])
  IN  IF m = <<>> THEN <<>>
      ELSE IF outros = <<>> THEN <<m[1]>>
      ELSE <<m[1], outros[1]>>
C7_Passo ==
  (pc = "gerar" /\ intencao = "comparar") =>
    LET d == PrimeirosDistintos(findall(contexto(historico)))
    IN  /\ Len(d) < 2 => resposta' = Dica
        /\ Kind(resposta') = "comparacao" =>
             /\ resposta'.poke1 # resposta'.poke2
             /\ <<resposta'.poke1, resposta'.poke2>> = d
C7_ComparaDoisDistintos == [][C7_Passo]_vars

\* C8: in a turn where extraction yields two or more distinct names, the
\* prompt showing two options is answered before any look-up; after the
\* answer the candidate list holds exactly one name, one of the two options
\* shown, and only that name is looked up in the turn.
C8_Ambiguo == Cardinality(SeqToSet(extraidos)) >= 2
C8_Antes ==
  /\ Len(opcoes) = 2
  /\ pc = "input" => buscas = <<>>
  /\ pc # "input" =>
       /\ Len(nomes_detectados) = 1
       /\ nomes_detectados[1] \in SeqToSet(opcoes)
C8_SoOEscolhido ==
  C8_Ambiguo =>
    /\ C8_Antes
    /\ \A i \in DOMAIN buscas : buscas[i].nome = nomes_detectados[1]

\* C8 as amended: ... only that name is looked up by responder's loop; the
\* other look-ups of the turn are the two that gerar_resposta makes, in a
\* Compare turn, for the first two capitalized words of the memory text.
C8_EscolhidoEComparados ==
  C8_Ambiguo =>
    /\ C8_Antes
    /\ \A i \in DOMAIN buscas :
         \/ i = 1 /\ buscas[i] = [quem |-> "responder", nome |-> nomes_detectados[1]]
         \/ /\ i \in {2, 3}
            /\ Len(buscas) = 3
            /\ intencao = "comparar"
            /\ pc = "idle"
            /\ buscas[i].quem = "gerar_resposta"
C8_Witness ==
  /\ C8_Ambiguo
  /\ pc = "idle"
  /\ Len(buscas) = 1
  /\ nomes_detectados = <<opcoes[2]>>
  /\ opcoes[1] # opcoes[2]

\* C9: every record that resolution returns has a non-empty name and a
\* stats mapping with all six canonical keys present.
C9_RegistroCanonico ==
  (r_fase = "feito" /\ r_dados # None) =>
    /\ r_dados.nome.w # ""
    /\ DOMAIN r_dados.stats = StatsCanonicas

\* C10: ultimo_pokemon, once set, is never unset; from then on a turn whose
\* question names no known creature goes on with <<ultimo_pokemon>> as its
\* only candidate, without a prompt, and "nao identifiquei" is never the
\* reply again.
C10_Passo ==
  /\ ultimo_pokemon # None => ultimo_pokemon' = ultimo_pokemon \/ pc = "busca"
  /\ ultimo_pokemon # None => (ultimo_pokemon' # None /\ ultimo_pokemon'.w # "")
  /\ (ultimo_pokemon # None /\ pc = "idle" /\ turnos' = turnos + 1
        /\ extraidos' = <<>>)
       => /\ nomes_detectados' = <<ultimo_pokemon>>
          /\ opcoes' = <<>>
          /\ pc' = "busca"
C10_Estado ==
  ultimo_pokemon # None => resposta # NaoIdentifiquei
C10_UltimoNuncaSeApaga == [](C10_Estado) /\ [][C10_Passo]_vars
C10_Witness ==
  /\ ultimo_pokemon # None
  /\ turnos = 2
  /\ extraidos = <<>>
  /\ nomes_detectados = <<ultimo_pokemon>>
  /\ pc = "idle"
  /\ Kind(resposta) = "defesa"

====
